---- MODULE Spec2Model ----
(***************************************************************************)
(* A model of salesforce_object_operations.py: the extract / delete /      *)
(* verify pipeline, its error-log merge (save_error_to_csv) and the       *)
(* polling driver.                                                         *)
(*                                                                         *)
(* Files are modelled by their CSV text (a header line and data lines of   *)
(* text cells); pandas DataFrames by typed cells.  to_csv and read_csv are *)
(* the conversions between the two.                                        *)
(***************************************************************************)
EXTENDS Integers, Sequences, FiniteSets, TLC

VARIABLES
    fs,        \* file name -> file on disk
    backend,   \* object type -> identifiers of the records that exist in the CRM
    clock,     \* minutes since the midnight before the process started
    nextRun,   \* job -> minute of its next run (schedule's Job.next_run)
    driver,    \* the main thread: where it is, the job it runs, the jobs still pending
    task,      \* object type -> the worker thread of the running job for that type
    out,       \* object type -> the line the type's task printed in the running job
    started,   \* history: the minute of the day the process started at
    dispatched, \* history: job -> how many times the driver has dispatched it
    saved,     \* history: object type -> the identifiers the last successful Extraction
               \* fetched and wrote
    arg,       \* reconciler checks: the BulkOperationResults last passed in
    ret,       \* reconciler checks: the rows flatten returned
    fed,       \* reconciler checks: every CSV row handed to a merge so far
    phase,     \* reconciler checks: "init", "once" (arg merged), "twice" (arg merged again)
    snap       \* reconciler checks: the row set of the log after arg was merged once

vars == <<fs, backend, clock, nextRun, driver, task, out,
          started, dispatched, saved, arg, ret, fed, phase, snap>>

pipeVars == <<fs, backend, clock, nextRun, driver, task, out>>
histVars == <<started, dispatched, saved>>
pureVars == <<arg, ret, fed, phase, snap>>

----------------------------------------------------------------------------
(* Bounds *)

\* longest BulkOperationResult list handed to flatten / a merge in the reconciler checks
MaxResults == 3

----------------------------------------------------------------------------
(* Python values held in DataFrame cells and result dictionaries *)

PyBool(x) == [kind |-> "bool", b |-> x, s |-> ""]
PyStr(x) == [kind |-> "str", b |-> FALSE, s |-> x]
\* an integer, held by its decimal digits as str() gives them
PyInt(x) == [kind |-> "int", b |-> FALSE, s |-> x]
PyNone == [kind |-> "None", b |-> FALSE, s |-> ""]
NaN == [kind |-> "NaN", b |-> FALSE, s |-> ""]

\* pandas.isna
IsNa(c) == c.kind \in {"None", "NaN"}

\* equality of two cells as drop_duplicates sees it: every missing value is the same key
CellEq(a, b) == IF IsNa(a) \/ IsNa(b) THEN IsNa(a) /\ IsNa(b) ELSE a = b

Range(s) == {s[i] : i \in 1..Len(s)}

----------------------------------------------------------------------------
(* Files and DataFrames *)

Absent == [exists |-> FALSE, header |-> <<>>, rows |-> <<>>]
\* a file with no column to parse: zero bytes, or the lone newline to_csv writes
\* for a DataFrame without columns
EmptyFile == [exists |-> TRUE, header |-> <<>>, rows |-> <<>>]

EmptyFrame == [columns |-> <<>>, rows |-> <<>>]

IdColumns == <<"Id">>
ErrorColumns == <<"success", "created", "id", "statusCode", "message">>

\* pd.DataFrame(list of dicts): the columns are the keys of the dicts; an empty
\* list gives a frame with no columns at all
DataFrame(dicts, cols) ==
    IF dicts = <<>> THEN EmptyFrame
    ELSE [columns |-> cols,
          rows |-> [i \in 1..Len(dicts) |-> [j \in 1..Len(cols) |-> dicts[i][cols[j]]]]]

\* the text to_csv writes for one cell
FormatCell(c) ==
    CASE c.kind = "bool" -> (IF c.b THEN "True" ELSE "False")
      [] c.kind = "str" -> c.s
      [] c.kind = "int" -> c.s
      [] OTHER -> ""

\* DataFrame.to_csv(path, index=False): the whole content of the file written
ToCsv(df) ==
    [exists |-> TRUE,
     header |-> df.columns,
     rows |-> [i \in 1..Len(df.rows) |->
                 [j \in 1..Len(df.columns) |-> FormatCell(df.rows[i][j])]]]

\* the mode to_csv opens its file in: 'w', the default
AppendMode == "a"

WriteMode == "w"

\* open(path, mode): 'w' empties the file, 'a' keeps what it holds
OpenForWrite(old) == IF WriteMode = "w" THEN EmptyFile ELSE [old EXCEPT !.exists = TRUE]

\* the file after to_csv has written the frame through the handle: from the start
\* in mode 'w', after the present content (header line included) in mode 'a'
WriteFile(cur, df) ==
    IF WriteMode = "w" \/ cur.header = <<>> THEN ToCsv(df)
    ELSE [exists |-> TRUE, header |-> cur.header,
          rows |-> cur.rows \o <<df.columns>> \o ToCsv(df).rows]

\* df.to_csv(path, index=False) run without interruption
ToCsvFile(old, df) == WriteFile(OpenForWrite(old), df)

\* read_csv's type inference for one column of text cells
ColumnIsBool(rows, j) ==
    /\ rows # <<>>
    /\ \A i \in 1..Len(rows) : rows[i][j] \in {"True", "False"}

\* int(text) for the texts made of digits only, as its decimal digits
IntText(text) ==
    CASE text = "001" -> "1"
      [] text = "002" -> "2"
      [] OTHER -> ""

\* a column whose every cell is made of digits is read as int64
ColumnIsInt(rows, j) ==
    /\ rows # <<>>
    /\ \A i \in 1..Len(rows) : IntText(rows[i][j]) # ""

ParseCell(text, isBool, isInt) ==
    IF text = "" THEN NaN
    ELSE IF isBool THEN PyBool(text = "True")
    ELSE IF isInt THEN PyInt(IntText(text))
    ELSE PyStr(text)

\* pd.read_csv(path): FileNotFoundError for a missing file, EmptyDataError for a
\* file with no columns, else the parsed frame
ReadCsv(file) ==
    IF ~file.exists THEN [err |-> "FileNotFoundError", df |-> EmptyFrame]
    ELSE IF file.header = <<>> THEN [err |-> "EmptyDataError", df |-> EmptyFrame]
    ELSE [err |-> "",
          df |-> [columns |-> file.header,
                  rows |-> [i \in 1..Len(file.rows) |->
                              [j \in 1..Len(file.header) |->
                                 ParseCell(file.rows[i][j], ColumnIsBool(file.rows, j),
                                           ColumnIsInt(file.rows, j))]]]]

IndexOf(seq, x) == CHOOSE i \in 1..Len(seq) : seq[i] = x

\* pd.concat([a, b], ignore_index=True): the columns of a, then those only b has;
\* a cell of a column the frame lacks is NaN
Concat(a, b) ==
    LET extra == SelectSeq(b.columns, LAMBDA c : c \notin Range(a.columns))
        cols == a.columns \o extra
        Reindex(df) ==
            [i \in 1..Len(df.rows) |->
               [j \in 1..Len(cols) |->
                  IF cols[j] \in Range(df.columns)
                  THEN df.rows[i][IndexOf(df.columns, cols[j])]
                  ELSE NaN]]
    IN [columns |-> cols, rows |-> Reindex(a) \o Reindex(b)]

RowEq(r, q) == \A j \in 1..Len(r) : CellEq(r[j], q[j])

\* DataFrame.drop_duplicates(): keeps the first of the rows equal in every column
DropDuplicatesNone(df) ==
    LET Keep(i) == \A k \in 1..Len(df.rows) : k # i => ~RowEq(df.rows[k], df.rows[i])
        idx == SelectSeq([i \in 1..Len(df.rows) |-> i], Keep)
    IN [columns |-> df.columns, rows |-> [n \in 1..Len(idx) |-> df.rows[idx[n]]]]

DropDuplicates(df) ==
    LET Keep(i) == \A k \in 1..(i - 1) : ~RowEq(df.rows[k], df.rows[i])
        idx == SelectSeq([i \in 1..Len(df.rows) |-> i], Keep)
    IN [columns |-> df.columns, rows |-> [n \in 1..Len(idx) |-> df.rows[idx[n]]]]

----------------------------------------------------------------------------
(* save_error_to_csv: flattening *)

\* one BulkOperationResult -> one flat dictionary
FlattenOneLast(error) ==
    [success |-> error.success,
     created |-> error.created,
     id |-> error.id,
     statusCode |-> IF error.errors # <<>>
                    THEN error.errors[Len(error.errors)].statusCode ELSE PyNone,
     message |-> IF error.errors # <<>>
                 THEN error.errors[Len(error.errors)].message ELSE PyNone]

FlattenOne(error) ==
    [success |-> error.success,
     created |-> error.created,
     id |-> error.id,
     statusCode |-> IF error.errors # <<>> THEN error.errors[1].statusCode ELSE PyNone,
     message |-> IF error.errors # <<>> THEN error.errors[1].message ELSE PyNone]

\* the loop building flat_errors
Flatten(errors) == [i \in 1..Len(errors) |-> FlattenOne(errors[i])]

\* pd.concat([existing_df, df], ignore_index=True) and drop_duplicates(inplace=True)
CombinedNewOnly(existing, df) == DropDuplicates(df)

Combined(existing, df) == DropDuplicates(Concat(existing, df))

\* the whole of save_error_to_csv run without interruption: the file it leaves
SaveErrorToCsv(errors, file) ==
    LET df == DataFrame(Flatten(errors), ErrorColumns)
    IN IF file.exists
       THEN LET r == ReadCsv(file)
            IN IF r.err = "EmptyDataError"
               THEN ToCsvFile(file, df)
               ELSE ToCsvFile(file, Combined(r.df, df))
       ELSE ToCsvFile(file, df)

----------------------------------------------------------------------------
(* The CRM's answers *)

AccountIds == {"a1", "a2"}
ContactIds == {"c1"}
ObjectTypes == {"Account", "Contact"}
IdsOf(o) == IF o = "Account" THEN AccountIds ELSE ContactIds

FileOf(o) == IF o = "Account" THEN "Accounts.csv" ELSE "Contacts.csv"
ErrorFile == "error.csv"
Files == {"Accounts.csv", "Contacts.csv", ErrorFile}

ErrDeleted == [statusCode |-> PyStr("ENTITY_IS_DELETED"), message |-> PyStr("entity is deleted")]
ErrFailed == [statusCode |-> PyStr("DELETE_FAILED"), message |-> PyStr("delete failed")]
ErrLocked == [statusCode |-> PyStr("UNABLE_TO_LOCK_ROW"), message |-> PyStr("unable to lock row")]

\* one entry of the list bulk delete returns
BulkResult(success, created, id, errors) ==
    [success |-> PyBool(success), created |-> PyBool(created), id |-> id, errors |-> errors]

\* the set of sequences over S of length at most n
SeqsUpTo(S, n) == UNION {[1..k -> S] : k \in 0..n}

RowSet(file) == Range(file.rows)

\* the CSV rows a list of BulkOperationResults is written as
TextRows(errors) == RowSet(ToCsv(DataFrame(Flatten(errors), ErrorColumns)))

----------------------------------------------------------------------------
(* The driver: schedule_jobs and the poll loop *)

Jobs == {"Extraction", "Deletion", "Verification"}
\* the order schedule_jobs registers the jobs in
JobOrder == <<"Extraction", "Deletion", "Verification">>

\* timedelta(minutes=...) of each job's registration
ExtractionOffset == 1
DeletionOffset == 2
VerificationOffset == 3
Offset(j) ==
    CASE j = "Extraction" -> ExtractionOffset
      [] j = "Deletion" -> DeletionOffset
      [] j = "Verification" -> VerificationOffset

\* every().day: the period, in minutes
Day == 1440

\* minutes of the day the process may start at
StartTimes == {600, 1438}

\* strftime('%H:%M') of start + offset: the minute of the day the job is registered at
AtTime(start, j) == (start + Offset(j)) % Day

\* schedule's Job._schedule_next_run at minute `now`: the at-time today when it is
\* still ahead, else the at-time tomorrow
NextRunToday(at, now) == (now \div Day) * Day + at

NextRunAfter(at, now) ==
    IF at > now % Day THEN (now \div Day) * Day + at
    ELSE ((now \div Day) + 1) * Day + at

\* sorted(runnable_jobs): the due jobs by next_run; equal times keep registration order
Before(nr, a, b) ==
    \/ nr[a] < nr[b]
    \/ nr[a] = nr[b] /\ IndexOf(JobOrder, a) < IndexOf(JobOrder, b)

SortedDueReversed(nr, now) ==
    LET due == {j \in Jobs : nr[j] <= now}
        Rank(j) == Cardinality({k \in due : Before(nr, j, k)}) + 1
    IN [n \in 1..Cardinality(due) |-> CHOOSE j \in due : Rank(j) = n]

SortedDue(nr, now) ==
    LET due == {j \in Jobs : nr[j] <= now}
        Rank(j) == Cardinality({k \in due : Before(nr, k, j)}) + 1
    IN [n \in 1..Cardinality(due) |-> CHOOSE j \in due : Rank(j) = n]

IdleTask == [pc |-> "idle", ids |-> <<>>, df |-> EmptyFrame, buf |-> EmptyFrame, found |-> {}]
Terminated(t) == t.pc \in {"ok", "caught", "raised"}

FirstStep(j) ==
    CASE j = "Extraction" -> "x_query"
      [] j = "Deletion" -> "d_read"
      [] j = "Verification" -> "v_read"

----------------------------------------------------------------------------
(* The pipeline: initial state *)

\* an IdentifierFile holding the header line only
HeaderOnly == [exists |-> TRUE, header |-> IdColumns, rows |-> <<>>]

\* what the working directory may hold for an IdentifierFile when the process starts
InitialIdFiles == {Absent, HeaderOnly}

\* LIMIT 100 of the extraction query
QueryLimit == 100

\* how many minutes a job may fall behind its run time
MaxLate == 1
\* the last day (day 0 is the day of the start) whose jobs are run
MaxDay == 1

InitReconciler ==
    /\ arg = <<>>
    /\ ret = <<>>
    /\ fed = {}
    /\ phase = "init"
    /\ snap = {}

\* nothing has been dispatched or written yet
NoExtraction == [any |-> FALSE, ids |-> <<>>]

InitHistory(start) ==
    /\ started = start
    /\ dispatched = [j \in Jobs |-> 0]
    /\ saved = [o \in ObjectTypes |-> NoExtraction]

InitDriver(start) ==
    /\ clock = start
    /\ nextRun = [j \in Jobs |-> NextRunAfter(AtTime(start, j), start)]
    /\ driver = [pc |-> "poll", job |-> "", pending |-> <<>>]
    /\ task = [o \in ObjectTypes |-> IdleTask]
    /\ out = [o \in ObjectTypes |-> ""]
    /\ InitHistory(start)

Init ==
    /\ \E start \in StartTimes : InitDriver(start)
    /\ \E f0 \in InitialIdFiles :
          fs = [f \in Files |-> IF f = ErrorFile THEN Absent ELSE f0]
    \* the CRM holds any of the records; its other users are not modelled, so it
    \* changes by this program's deletions alone
    /\ backend \in [ObjectTypes -> SUBSET (AccountIds \cup ContactIds)]
    /\ \A o \in ObjectTypes : backend[o] \subseteq IdsOf(o)
    /\ InitReconciler

----------------------------------------------------------------------------
(* The driver's steps *)

\* time passes while a job is due or running; no task reads the clock, so the
\* minutes a job takes are counted when its tasks have ended
Tick ==
    /\ \E j \in Jobs : nextRun[j] <= clock /\ clock < nextRun[j] + MaxLate
    /\ \A o \in ObjectTypes : task[o].pc = "idle" \/ Terminated(task[o])
    /\ clock' = clock + 1
    /\ UNCHANGED <<fs, backend, nextRun, driver, task, out, pureVars, histVars>>

\* the poll loop turns with nothing due until the first job is
Idle ==
    LET first == CHOOSE t \in {nextRun[j] : j \in Jobs} : \A j \in Jobs : t <= nextRun[j]
    IN /\ driver.pc = "poll"
       /\ clock < first
       /\ first \div Day <= MaxDay
       /\ clock' = first
       /\ UNCHANGED <<fs, backend, nextRun, driver, task, out, pureVars, histVars>>

\* schedule.run_pending(): the due jobs, sorted, are fixed for this pass
RunPending ==
    /\ driver.pc = "poll"
    /\ \E j \in Jobs : nextRun[j] <= clock
    /\ driver' = [pc |-> "run", job |-> "", pending |-> SortedDue(nextRun, clock)]
    /\ UNCHANGED <<fs, backend, clock, nextRun, task, out, pureVars, histVars>>

\* run_*_tasks: both object-type tasks are submitted to the pool
Dispatch ==
    /\ driver.pc = "run"
    /\ driver.pending # <<>>
    /\ driver' = [driver EXCEPT !.pc = "join", !.job = Head(driver.pending),
                                !.pending = Tail(driver.pending)]
    /\ task' = [o \in ObjectTypes |-> [IdleTask EXCEPT !.pc = FirstStep(Head(driver.pending))]]
    /\ out' = [o \in ObjectTypes |-> ""]
    /\ dispatched' = [dispatched EXCEPT ![Head(driver.pending)] = @ + 1]
    /\ UNCHANGED <<fs, backend, clock, nextRun, pureVars, started, saved>>

\* what leaving the `with ThreadPoolExecutor()` block does once both tasks have
\* ended: an exception a task raised stays in its Future, which nobody reads
JoinRaise ==
    IF \E o \in ObjectTypes : task[o].pc = "raised" THEN "crashed" ELSE "run"

JoinOutcome == "run"

\* leaving the `with` block is executor.shutdown(wait=True): it returns when
\* both submitted tasks have ended
JoinNoWait == TRUE

JoinReady == \A o \in ObjectTypes : Terminated(task[o])

\* the end of the `with` block and of Job.run: next_run is set from the clock
Join ==
    /\ driver.pc = "join"
    /\ JoinReady
    /\ driver' = [driver EXCEPT !.pc = JoinOutcome, !.job = ""]
    /\ nextRun' = [nextRun EXCEPT ![driver.job] = NextRunAfter(nextRun[driver.job] % Day, clock)]
    \* the pool and its ended workers are gone
    /\ task' = [o \in ObjectTypes |-> IF Terminated(task[o]) THEN IdleTask ELSE task[o]]
    /\ UNCHANGED <<fs, backend, clock, out, pureVars, histVars>>

\* the pass is over: time.sleep(1), back to run_pending
Sleep ==
    /\ driver.pc = "run"
    /\ driver.pending = <<>>
    /\ driver' = [driver EXCEPT !.pc = "poll"]
    /\ UNCHANGED <<fs, backend, clock, nextRun, task, out, pureVars, histVars>>

----------------------------------------------------------------------------
(* Extraction: query_and_write_records *)

\* the orders sf.query may return the records of a set in, cut at the LIMIT
FetchOrders(S) ==
    LET n == IF Cardinality(S) < QueryLimit THEN Cardinality(S) ELSE QueryLimit
    IN {q \in [1..n -> S] : \A a, b \in 1..n : a # b => q[a] # q[b]}

IdDicts(ids) == [i \in 1..Len(ids) |-> [Id |-> PyStr(ids[i])]]

\* sf.query: the Gateway fails (caught, an error line is printed) or answers
ExtractQueryFileFirst(o) ==
    /\ task[o].pc = "x_query"
    /\ \/ /\ task' = [task EXCEPT ![o].pc = "caught"]
          /\ out' = [out EXCEPT ![o] = "error"]
          /\ fs' = [fs EXCEPT ![FileOf(o)] = OpenForWrite(fs[FileOf(o)])]
       \/ /\ \E ids \in FetchOrders(backend[o]) :
                task' = [task EXCEPT ![o].pc = "x_open", ![o].ids = ids,
                                     ![o].df = DataFrame(IdDicts(ids), IdColumns)]
          /\ out' = out
          /\ fs' = fs
    /\ UNCHANGED <<backend, clock, nextRun, driver, pureVars, histVars>>

ExtractQuery(o) ==
    /\ task[o].pc = "x_query"
    /\ \/ /\ task' = [task EXCEPT ![o].pc = "caught"]
          /\ out' = [out EXCEPT ![o] = "error"]
       \/ /\ \E ids \in FetchOrders(backend[o]) :
                task' = [task EXCEPT ![o].pc = "x_open", ![o].ids = ids,
                                     ![o].df = DataFrame(IdDicts(ids), IdColumns)]
          /\ out' = out
    /\ UNCHANGED <<fs, backend, clock, nextRun, driver, pureVars, histVars>>

\* to_csv opens the file for writing, which empties it, or fails to (caught)
ExtractOpen(o) ==
    /\ task[o].pc = "x_open"
    /\ \/ /\ task' = [task EXCEPT ![o].pc = "caught"]
          /\ out' = [out EXCEPT ![o] = "error"]
          /\ fs' = fs
       \/ /\ task' = [task EXCEPT ![o].pc = "x_data"]
          /\ fs' = [fs EXCEPT ![FileOf(o)] = OpenForWrite(fs[FileOf(o)])]
          /\ out' = out
    /\ UNCHANGED <<backend, clock, nextRun, driver, pureVars, histVars>>

\* to_csv writes the frame and closes the file; the success line is printed
ExtractData(o) ==
    /\ task[o].pc = "x_data"
    /\ fs' = [fs EXCEPT ![FileOf(o)] = WriteFile(fs[FileOf(o)], task[o].df)]
    /\ task' = [task EXCEPT ![o].pc = "ok"]
    /\ out' = [out EXCEPT ![o] = "saved"]
    /\ saved' = [saved EXCEPT ![o] = [any |-> TRUE, ids |-> task[o].ids]]
    /\ UNCHANGED <<backend, clock, nextRun, driver, pureVars, started, dispatched>>

----------------------------------------------------------------------------
(* Deletion: read_ids_from_csv and save_error_to_csv *)

\* df['Id'] as a list of identifiers (an integer by its digits)
IdList(df) == [i \in 1..Len(df.rows) |-> df.rows[i][IndexOf(df.columns, "Id")].s]

\* pd.read_csv(file_path) stands before the try: its exception leaves the function
\* and ends the task, held by a Future nobody reads; nothing is printed
DeleteReadConsume(o) ==
    LET r == ReadCsv(fs[FileOf(o)])
    IN /\ task[o].pc = "d_read"
       /\ task' = IF r.err # ""
                  THEN [task EXCEPT ![o].pc = "raised"]
                  ELSE [task EXCEPT ![o].pc = "d_delete", ![o].ids = IdList(r.df)]
       /\ fs' = IF r.err # "" THEN fs ELSE [fs EXCEPT ![FileOf(o)] = Absent]
       /\ UNCHANGED <<backend, clock, nextRun, driver, out, pureVars, histVars>>

DeleteReadSibling(o) ==
    LET r == ReadCsv(fs[FileOf(CHOOSE p \in ObjectTypes : p # o)])
    IN /\ task[o].pc = "d_read"
       /\ task' = IF r.err # ""
                  THEN [task EXCEPT ![o].pc = "raised"]
                  ELSE [task EXCEPT ![o].pc = "d_delete", ![o].ids = IdList(r.df)]
       /\ UNCHANGED <<fs, backend, clock, nextRun, driver, out, pureVars, histVars>>

DeleteRead(o) ==
    LET r == ReadCsv(fs[FileOf(o)])
    IN /\ task[o].pc = "d_read"
       /\ task' = IF r.err # ""
                  THEN [task EXCEPT ![o].pc = "raised"]
                  ELSE [task EXCEPT ![o].pc = "d_delete", ![o].ids = IdList(r.df)]
       /\ UNCHANGED <<fs, backend, clock, nextRun, driver, out, pureVars, histVars>>

\* the records whose deletion the CRM may refuse
Refusable == {"c1"}

\* the ways the CRM may answer a bulk delete of `ids`: a record that exists is
\* deleted or, if it is one the CRM may refuse, refused with two errors; a record
\* that does not exist is reported as deleted
BulkOutcomes(ids, present) ==
    {oc \in [1..Len(ids) -> {"ok", "refused", "gone"}] :
        \A i \in 1..Len(ids) :
            /\ oc[i] = "gone" <=> ids[i] \notin present
            /\ oc[i] = "refused" => ids[i] \in Refusable
            /\ \A k \in 1..(i - 1) : ids[k] = ids[i] => oc[k] # "ok"}

BulkResults(ids, oc) ==
    [i \in 1..Len(ids) |->
        CASE oc[i] = "ok" -> BulkResult(TRUE, FALSE, PyStr(ids[i]), <<>>)
          [] oc[i] = "refused" -> BulkResult(FALSE, FALSE, PyNone, <<ErrFailed, ErrLocked>>)
          [] oc[i] = "gone" -> BulkResult(FALSE, FALSE, PyNone, <<ErrDeleted>>)]

\* sf.bulk.<type>.delete(records): the Gateway fails (caught, an error line), or
\* answers one result per record; save_error_to_csv starts by flattening them
DeleteBulk(o) ==
    /\ task[o].pc = "d_delete"
    /\ \/ /\ task' = [task EXCEPT ![o].pc = "caught"]
          /\ out' = [out EXCEPT ![o] = "error"]
          /\ backend' = backend
       \/ \E oc \in BulkOutcomes(task[o].ids, backend[o]) :
             /\ backend' = [backend EXCEPT
                    ![o] = @ \ {task[o].ids[i] : i \in {k \in 1..Len(task[o].ids) : oc[k] = "ok"}}]
             /\ task' = [task EXCEPT ![o].pc = "s_exists",
                            ![o].df = DataFrame(Flatten(BulkResults(task[o].ids, oc)), ErrorColumns)]
             /\ out' = out
    /\ UNCHANGED <<fs, clock, nextRun, driver, pureVars, histVars>>

\* os.path.exists(file_path)
SaveExists(o) ==
    /\ task[o].pc = "s_exists"
    /\ task' = IF fs[ErrorFile].exists
               THEN [task EXCEPT ![o].pc = "s_read"]
               ELSE [task EXCEPT ![o].pc = "s_open", ![o].buf = task[o].df]
    /\ UNCHANGED <<fs, backend, clock, nextRun, driver, out, pureVars, histVars>>

\* pd.read_csv(file_path), concat and drop_duplicates; EmptyDataError leads to the
\* branch that writes df alone (the file exists here: nothing ever removes it)
SaveRead(o) ==
    LET r == ReadCsv(fs[ErrorFile])
    IN /\ task[o].pc = "s_read"
       /\ \/ /\ r.err = ""
             /\ task' = [task EXCEPT ![o].pc = "s_open", ![o].buf = Combined(r.df, task[o].df)]
             /\ out' = out
          \/ /\ r.err = "EmptyDataError"
             /\ task' = [task EXCEPT ![o].pc = "s_open", ![o].buf = task[o].df]
             /\ out' = out
       /\ UNCHANGED <<fs, backend, clock, nextRun, driver, pureVars, histVars>>

\* to_csv opens error.csv for writing, which empties it, or fails to (caught)
SaveOpen(o) ==
    /\ task[o].pc = "s_open"
    /\ \/ /\ task' = [task EXCEPT ![o].pc = "caught"]
          /\ out' = [out EXCEPT ![o] = "error"]
          /\ fs' = fs
       \/ /\ task' = [task EXCEPT ![o].pc = "s_data"]
          /\ fs' = [fs EXCEPT ![ErrorFile] = OpenForWrite(fs[ErrorFile])]
          /\ out' = out
    /\ UNCHANGED <<backend, clock, nextRun, driver, pureVars, histVars>>

\* to_csv writes the frame and closes the file; read_ids_from_csv returns
SaveData(o) ==
    /\ task[o].pc = "s_data"
    /\ fs' = [fs EXCEPT ![ErrorFile] = WriteFile(fs[ErrorFile], task[o].buf)]
    /\ task' = [task EXCEPT ![o].pc = "ok"]
    /\ UNCHANGED <<backend, clock, nextRun, driver, out, pureVars, histVars>>

----------------------------------------------------------------------------
(* Verification: the query text and the CRM's reading of it *)

\* the characters of the identifiers
Chars(id) ==
    CASE id = "a1" -> <<"a", "1">>
      [] id = "a2" -> <<"a", "2">>
      [] id = "c1" -> <<"c", "1">>
      [] id = "001" -> <<"0", "0", "1">>
      [] id = "002" -> <<"0", "0", "2">>
      [] id = "a1'" -> <<"a", "1", "'">>
      [] id = "a1','a2" -> <<"a", "1", "'", ",", "'", "a", "2">>

\* sep.join(parts), on sequences of characters
RECURSIVE StrJoin(_, _)
StrJoin(sep, parts) ==
    IF parts = <<>> THEN <<>>
    ELSE IF Len(parts) = 1 THEN parts[1]
    ELSE parts[1] \o sep \o StrJoin(sep, Tail(parts))

\* df['Id'].tolist(): the values of the column
IdCells(df) == [i \in 1..Len(df.rows) |-> df.rows[i][IndexOf(df.columns, "Id")]]

\* df['Id'] raises KeyError without the column; "','".join raises TypeError on a
\* value that is not a str
Joinable(df) ==
    /\ "Id" \in Range(df.columns)
    /\ \A i \in 1..Len(df.rows) : IdCells(df)[i].kind = "str"

\* f"SELECT Id FROM {object_type} WHERE Id IN ('{id_str}')" with
\* id_str = "','".join(id_list): the keywords as one token each, the rest
\* character by character
BuildQuery(o, ids) ==
    <<"SELECT Id FROM", o, "WHERE Id IN", "(", "'">>
    \o StrJoin(<<"'", ",", "'">>, [i \in 1..Len(ids) |-> Chars(ids[i])])
    \o <<"'", ")">>

\* the CRM's parser on the value list of IN, from character i on: a literal
\* runs from a quote to the next quote, literals are separated by commas, the
\* list ends at the closing parenthesis and nothing may follow it
RECURSIVE ParseInList(_, _, _, _, _)
ParseInList(text, i, mode, cur, items) ==
    LET Malformed == [ok |-> FALSE, items |-> <<>>]
    IN IF i > Len(text) THEN [ok |-> mode = "end", items |-> items]
       ELSE CASE mode = "open" ->
                   IF text[i] = "(" THEN ParseInList(text, i + 1, "item", cur, items)
                   ELSE Malformed
              [] mode = "item" ->
                   IF text[i] = "'" THEN ParseInList(text, i + 1, "lit", <<>>, items)
                   ELSE Malformed
              [] mode = "lit" ->
                   IF text[i] = "'"
                   THEN ParseInList(text, i + 1, "sep", <<>>, Append(items, cur))
                   ELSE ParseInList(text, i + 1, "lit", Append(cur, text[i]), items)
              [] mode = "sep" ->
                   IF text[i] = "," THEN ParseInList(text, i + 1, "item", cur, items)
                   ELSE IF text[i] = ")" THEN ParseInList(text, i + 1, "end", cur, items)
                   ELSE Malformed
              [] OTHER -> Malformed

\* sf.query_all(query) when the Gateway answers: MALFORMED_QUERY, or the records
\* of the object type whose Id is one of the literals
QueryAll(query, store) ==
    LET p == ParseInList(query, 4, "open", <<>>, <<>>)
    IN IF p.ok
       THEN [err |-> FALSE, ids |-> {r \in store[query[2]] : Chars(r) \in Range(p.items)}]
       ELSE [err |-> TRUE, ids |-> {}]

----------------------------------------------------------------------------
(* Verification: check_deleted_records *)

\* pd.read_csv(file_path) and the building of the query stand before the try:
\* an exception of either leaves the function and ends the task in silence
VerifyRead(o) ==
    LET r == ReadCsv(fs[FileOf(o)])
    IN /\ task[o].pc = "v_read"
       /\ task' = IF r.err # "" THEN [task EXCEPT ![o].pc = "raised"]
                  ELSE IF ~Joinable(r.df) THEN [task EXCEPT ![o].pc = "raised"]
                  ELSE [task EXCEPT ![o].pc = "v_query", ![o].ids = IdList(r.df)]
       /\ UNCHANGED <<fs, backend, clock, nextRun, driver, out, pureVars, histVars>>

\* sf.query_all(query): the Gateway fails or rejects the query (caught, an error
\* line), or the result is printed
VerifyQuery(o) ==
    LET q == QueryAll(BuildQuery(o, task[o].ids), backend)
    IN /\ task[o].pc = "v_query"
       /\ \/ /\ task' = [task EXCEPT ![o].pc = "caught"]
             /\ out' = [out EXCEPT ![o] = "error"]
          \/ /\ ~q.err
             /\ task' = [task EXCEPT ![o].pc = "ok", ![o].found = q.ids]
             /\ out' = [out EXCEPT ![o] = "result"]
       /\ UNCHANGED <<fs, backend, clock, nextRun, driver, pureVars, histVars>>

----------------------------------------------------------------------------
(* The program as a whole *)

TaskStep(o) ==
    \/ ExtractQuery(o) \/ ExtractOpen(o) \/ ExtractData(o)
    \/ DeleteRead(o) \/ DeleteBulk(o)
    \/ SaveExists(o) \/ SaveRead(o) \/ SaveOpen(o) \/ SaveData(o)
    \/ VerifyRead(o) \/ VerifyQuery(o)

DriverStep == RunPending \/ Dispatch \/ Join \/ Sleep

Next ==
    \/ Tick
    \/ Idle
    \/ DriverStep
    \/ \E o \in ObjectTypes : TaskStep(o)

Spec == Init /\ [][Next]_vars

----------------------------------------------------------------------------
(* DriverSpec: the program started at minutes on both sides of midnight, with
   every record in the CRM and no file in the working directory *)

\* 10:00, and the four minutes before midnight: the last start whose three jobs
\* fall on the same day, and the starts that put three, two and one of them on
\* the next
DriverStartTimes == {600, 1436, 1437, 1438, 1439}

DriverInit ==
    /\ \E start \in DriverStartTimes : InitDriver(start)
    /\ fs = [f \in Files |-> Absent]
    /\ backend = [o \in ObjectTypes |-> IdsOf(o)]
    /\ InitReconciler

DriverSpec == DriverInit /\ [][Next]_vars

----------------------------------------------------------------------------
(* VerifySpec: check_deleted_records on every bounded IdentifierFile.  The
   file was in the working directory at the start, the Extraction of the cycle
   failed and left it, and the Verification job has just been dispatched. *)

\* the most identifiers of an IdentifierFile given to Verification
MaxFileIds == 2

\* identifiers as the CRM issues them, made of digits only, and with a quote
VerifyIdTexts == {"a1", "a2", "001", "002", "a1'", "a1','a2"}

\* the Account records the CRM may hold
VerifyAccounts == {"a1", "a2", "001"}

\* the IdentifierFile holding the identifiers, one per line
IdFile(ids) ==
    [exists |-> TRUE, header |-> IdColumns, rows |-> [i \in 1..Len(ids) |-> <<ids[i]>>]]

VerifyInit ==
    /\ \E ids \in SeqsUpTo(VerifyIdTexts, MaxFileIds) :
          fs = [f \in Files |-> CASE f = "Accounts.csv" -> IdFile(ids)
                                   [] f = "Contacts.csv" -> IdFile(<<"c1">>)
                                   [] OTHER -> Absent]
    /\ backend \in [ObjectTypes -> SUBSET (VerifyAccounts \cup ContactIds)]
    /\ backend["Account"] \subseteq VerifyAccounts
    /\ backend["Contact"] \subseteq ContactIds
    /\ started = 600
    /\ clock = 600 + VerificationOffset
    /\ nextRun = [j \in Jobs |-> IF j = "Verification" THEN 600 + Offset(j)
                                  ELSE 600 + Offset(j) + Day]
    /\ driver = [pc |-> "join", job |-> "Verification", pending |-> <<>>]
    /\ task = [o \in ObjectTypes |-> [IdleTask EXCEPT !.pc = FirstStep("Verification")]]
    /\ out = [o \in ObjectTypes |-> ""]
    /\ dispatched = [j \in Jobs |-> 1]
    /\ saved = [o \in ObjectTypes |-> NoExtraction]
    /\ InitReconciler

VerifyNext == \E o \in ObjectTypes : VerifyRead(o) \/ VerifyQuery(o)

VerifySpec == VerifyInit /\ [][VerifyNext]_vars

----------------------------------------------------------------------------
(* The pipeline at rest, for the checks of the reconciler alone *)

NoFiles == [f \in Files |-> Absent]

AtRest ==
    /\ InitDriver(600)
    /\ backend = [o \in ObjectTypes |-> {}]

----------------------------------------------------------------------------
(* FlattenSpec: flatten applied to every bounded list of results *)

FlattenInputs ==
    {BulkResult(s, c, i, e) :
        s \in BOOLEAN, c \in BOOLEAN, i \in {PyStr("a1"), PyNone},
        e \in {<<>>, <<ErrDeleted>>, <<ErrFailed, ErrLocked>>}}

FlattenInit ==
    /\ AtRest
    /\ fs = NoFiles
    /\ arg \in SeqsUpTo(FlattenInputs, MaxResults)
    /\ ret = <<>>
    /\ fed = {}
    /\ phase = "init"
    /\ snap = {}

FlattenCall ==
    /\ phase = "init"
    /\ ret' = Flatten(arg)
    /\ phase' = "flat"
    /\ UNCHANGED <<pipeVars, histVars, arg, fed, snap>>

FlattenSpec == FlattenInit /\ [][FlattenCall]_vars

----------------------------------------------------------------------------
(* MergeSpec: save_error_to_csv called again and again, one call at a time *)

MergeInputs ==
    {BulkResult(TRUE, FALSE, PyStr("a1"), <<>>),
     BulkResult(FALSE, FALSE, PyNone, <<ErrDeleted>>),
     BulkResult(FALSE, FALSE, PyNone, <<ErrFailed, ErrLocked>>)}

MergeInit ==
    /\ AtRest
    /\ \E log \in {Absent, EmptyFile} : fs = [NoFiles EXCEPT ![ErrorFile] = log]
    /\ InitReconciler

\* save_error_to_csv(errors)
Merge ==
    \E errors \in SeqsUpTo(MergeInputs, MaxResults) :
        /\ fs' = [fs EXCEPT ![ErrorFile] = SaveErrorToCsv(errors, fs[ErrorFile])]
        /\ arg' = errors
        /\ fed' = fed \cup TextRows(errors)
        /\ phase' = "once"
        /\ snap' = RowSet(fs'[ErrorFile])
        /\ UNCHANGED <<backend, clock, nextRun, driver, task, out, histVars, ret>>

\* save_error_to_csv called once more with the same errors
MergeAgain ==
    /\ phase = "once"
    /\ fs' = [fs EXCEPT ![ErrorFile] = SaveErrorToCsv(arg, fs[ErrorFile])]
    /\ fed' = fed \cup TextRows(arg)
    /\ phase' = "twice"
    /\ UNCHANGED <<backend, clock, nextRun, driver, task, out, histVars, arg, ret, snap>>

MergeSpec == MergeInit /\ [][Merge \/ MergeAgain]_vars

----------------------------------------------------------------------------
(* Claims about the reconciler *)

\* C2: merging the same BulkOperationResults into the error log a second time
\* leaves the set of rows the first merge left, whatever the log held before.
C2_MergeIdempotent ==
    phase = "twice" => RowSet(fs[ErrorFile]) = snap

\* three results with a missing id, merged twice into a log that held other rows
C2_Witness ==
    /\ phase = "twice"
    /\ Len(arg) = MaxResults
    /\ \E r \in TextRows(arg) : r[3] = ""
    /\ RowSet(fs[ErrorFile]) # TextRows(arg)

NoTwoEqualRows(file) ==
    \A i, k \in 1..Len(file.rows) : i # k => file.rows[i] # file.rows[k]

\* C3: after any completed merge the error log holds no two rows equal in every
\* field (so three entries, two of them identical, merged into an absent log
\* leave two rows).
C3_NoDuplicateRows ==
    phase \in {"once", "twice"} => NoTwoEqualRows(fs[ErrorFile])

\* C4: with the merges run one after another, the rows of the error log are
\* exactly the rows handed to the merges so far: none is lost, none invented.
C4_LogIsUnionOfMerges ==
    RowSet(fs[ErrorFile]) = fed

\* a later merge added rows to those an earlier merge had written
C4_Witness ==
    /\ phase = "once"
    /\ arg # <<>>
    /\ TextRows(arg) # fed
    /\ fed \ TextRows(arg) # {}
    /\ TextRows(arg) \cap snap # {}
    /\ Cardinality(fed) = 3

\* C5: flatten returns one entry per result, in order, with success, created and
\* id copied, and the status code and message of the first nested error, or
\* None for both when the result has no error.
C5_FlattenCorrect ==
    phase = "flat" =>
        /\ Len(ret) = Len(arg)
        /\ \A i \in 1..Len(arg) :
              /\ ret[i].success = arg[i].success
              /\ ret[i].created = arg[i].created
              /\ ret[i].id = arg[i].id
              /\ arg[i].errors = <<>> =>
                    ret[i].statusCode = PyNone /\ ret[i].message = PyNone
              /\ arg[i].errors # <<>> =>
                    /\ ret[i].statusCode = Head(arg[i].errors).statusCode
                    /\ ret[i].message = Head(arg[i].errors).message

\* two different results flattened, the second with two nested errors
C5_Witness ==
    /\ phase = "flat"
    /\ Len(arg) >= 2
    /\ arg[1] # arg[2]
    /\ Len(arg[2].errors) = 2
    /\ arg[1].errors = <<>>
    /\ ret[2].statusCode = ErrFailed.statusCode

----------------------------------------------------------------------------
(* Claims about the pipeline *)

\* the CSV rows of the frame a task holds
FrameRows(df) == RowSet(ToCsv(df))

BothDone(j) ==
    /\ driver.job = j
    /\ \A o \in ObjectTypes : task[o].pc = "ok"

\* C1: when the two Deletion tasks of a run have both merged their rows into
\* error.csv, and the two have no row in common, the file holds the rows of
\* both, however their steps interleaved.
C1_NoLostUpdate ==
    ( /\ BothDone("Deletion")
      /\ \A o \in ObjectTypes : FrameRows(task[o].df) # {}
      /\ FrameRows(task["Account"].df) \cap FrameRows(task["Contact"].df) = {} )
    => (FrameRows(task["Account"].df) \cup FrameRows(task["Contact"].df))
          \subseteq RowSet(fs[ErrorFile])

\* an IdentifierFile that holds no identifier
EmptyIdFile(file) == file.exists /\ file.rows = <<>>

\* C6: a Deletion task whose IdentifierFile holds no identifier, the one
\* Extraction writes for an empty answer included, submits no record and does not
\* raise.
C6_EmptyInputSafe ==
    \A o \in ObjectTypes :
        (driver.job = "Deletion" /\ EmptyIdFile(fs[FileOf(o)])) =>
            /\ task[o].pc # "raised"
            /\ task[o].ids = <<>>

\* C7: a Deletion or Verification task that cannot read its IdentifierFile
\* catches the failure and prints an error line; it neither raises nor stays
\* silent.
C7_ReadFailureReported ==
    \A o \in ObjectTypes :
        ( /\ driver.job \in {"Deletion", "Verification"}
          /\ ReadCsv(fs[FileOf(o)]).err # ""
          /\ Terminated(task[o]) )
        => (task[o].pc = "caught" /\ out[o] = "error")

Failed(t) == t.pc \in {"caught", "raised"}

\* C8: a failure in one object-type task leaves the sibling task able to take
\* its next step until it ends, and leaves the driver in its loop: the job is
\* joined once both tasks have ended, the pending jobs are dispatched, and a due
\* job is picked up at the next poll.
C8_FailuresAreContained ==
    /\ driver.pc \in {"poll", "run", "join"}
    /\ \A o, sib \in ObjectTypes :
          (Failed(task[o]) /\ sib # o) =>
              (Terminated(task[sib]) \/ ENABLED TaskStep(sib))
    /\ (driver.pc = "join" /\ \A o \in ObjectTypes : Terminated(task[o])) => ENABLED Join
    /\ driver.pc = "run" => ENABLED (Dispatch \/ Sleep)
    /\ (driver.pc = "poll" /\ \E j \in Jobs : nextRun[j] <= clock) => ENABLED RunPending

\* the Account task raised, the Contact task of the same job went on to its end,
\* and jobs are still pending
C8_Witness ==
    /\ driver.pc = "join"
    /\ driver.pending # <<>>
    /\ task["Account"].pc = "raised"
    /\ task["Contact"].pc = "ok"

\* the identifiers an IdentifierFile holds, line by line
FileIds(file) == [i \in 1..Len(file.rows) |-> file.rows[i][1]]

\* C9: when an Extraction task has succeeded, its IdentifierFile holds the
\* identifiers of that fetch, in the order fetched, at most the query limit of
\* them, and nothing else.
C9_ExtractionOverwrites ==
    \A o \in ObjectTypes :
        (driver.job = "Extraction" /\ task[o].pc = "ok") =>
            /\ fs[FileOf(o)].exists
            /\ \A i \in 1..Len(fs[FileOf(o)].rows) : Len(fs[FileOf(o)].rows[i]) = 1
            /\ FileIds(fs[FileOf(o)]) = task[o].ids
            /\ Len(task[o].ids) <= QueryLimit

\* the first day's Extraction wrote two Account identifiers, both records were
\* deleted and logged, and the second day's Extraction has written none
C9_Witness ==
    /\ clock >= (nextRun["Extraction"] % Day) + Day
    /\ driver.job = "Extraction"
    /\ task["Account"].pc = "ok"
    /\ task["Account"].ids = <<>>
    /\ AccountIds \subseteq {fs[ErrorFile].rows[i][3] : i \in 1..Len(fs[ErrorFile].rows)}

\* C10: no step taken while a Deletion or Verification job runs changes an
\* IdentifierFile, and no step taken while a Verification job runs changes any
\* file.
C10_ReadersLeaveFiles ==
    [][ /\ driver.job \in {"Deletion", "Verification"} =>
              \A o \in ObjectTypes : fs'[FileOf(o)] = fs[FileOf(o)]
        /\ driver.job = "Verification" => fs' = fs ]_vars

\* a Deletion task has deleted the record of its IdentifierFile and logged it,
\* and the file still holds the identifier
C10_Witness ==
    /\ driver.job = "Deletion"
    /\ task["Account"].pc = "ok"
    /\ fs["Accounts.csv"].rows # <<>>
    /\ fs[ErrorFile].rows # <<>>
    /\ backend["Account"] = {}

----------------------------------------------------------------------------
(* Claims about the driver *)

\* C11 as stated: over the life of the process each job type is dispatched at
\* most once; no job type is ever dispatched a second time.
C11_EachJobFiresOnce ==
    \A j \in Jobs : dispatched[j] <= 1

\* C11 as amended: a job type is dispatched only when it is due, and the end of
\* its run, and nothing else, moves its due time, to the same minute of the day
\* at least one day later and strictly ahead of the clock; so it fires once per
\* daily due time, and again on the following days.
C11_EachJobFiresOncePerDay ==
    [][ \A j \in Jobs :
          /\ dispatched'[j] # dispatched[j] =>
                /\ dispatched'[j] = dispatched[j] + 1
                /\ nextRun[j] <= clock
                /\ driver'.job = j
          /\ (driver.job = j /\ driver'.job # j) =>
                /\ nextRun'[j] >= nextRun[j] + Day
                /\ nextRun'[j] % Day = nextRun[j] % Day
                /\ nextRun'[j] > clock
          /\ nextRun'[j] # nextRun[j] => (driver.job = j /\ driver'.job # j) ]_vars

\* the second day's run of every job type has been dispatched
C11_Witness ==
    /\ \A j \in Jobs : dispatched[j] = 2
    /\ driver.job = "Verification"

\* C12: the jobs are registered at the start time +1, +2 and +3 minutes for
\* Extraction, Deletion and Verification, and in every cycle they are dispatched
\* in that order, also across midnight and when several are due at one poll:
\* the k-th Deletion comes after the k-th Extraction, the k-th Verification
\* after the k-th Deletion, and the next Extraction after that.
C12_RegisteredAndDispatchedInOrder ==
    /\ \A j \in Jobs : dispatched[j] = 0 => nextRun[j] = started + Offset(j)
    /\ dispatched["Extraction"] >= dispatched["Deletion"]
    /\ dispatched["Deletion"] >= dispatched["Verification"]
    /\ dispatched["Verification"] >= dispatched["Extraction"] - 1

\* started at 23:58, the poll that found Extraction due (23:59) came a minute
\* late and found Deletion (00:00) due as well; Extraction runs first
C12_Witness ==
    /\ started = 1438
    /\ driver.job = "Extraction"
    /\ driver.pending = <<"Deletion">>
    /\ clock = Day
    /\ dispatched["Deletion"] = 0

\* the steps of the tasks of a job
JobSteps(j) ==
    CASE j = "Extraction" -> {"x_query", "x_open", "x_data"}
      [] j = "Deletion" -> {"d_read", "d_delete", "s_exists", "s_read", "s_open", "s_data"}
      [] j = "Verification" -> {"v_read", "v_query"}
      [] OTHER -> {}

Running(t) == t.pc # "idle" /\ ~Terminated(t)

\* C15: job invocations never overlap: the driver polls and dispatches only
\* when no task is alive, every running task is a task of the one job being
\* run, and no Deletion or Verification task is at a step while an Extraction
\* task is.
C15_JobsNeverOverlap ==
    /\ driver.pc # "join" => \A o \in ObjectTypes : task[o].pc = "idle"
    /\ \A o \in ObjectTypes : Running(task[o]) => task[o].pc \in JobSteps(driver.job)
    /\ \A o, p \in ObjectTypes :
          task[o].pc \in JobSteps("Extraction") =>
              task[p].pc \notin JobSteps("Deletion") \cup JobSteps("Verification")

\* Deletion became due while the Extraction tasks were still at work, one of
\* them writing its IdentifierFile; it waits in the pending list
C15_Witness ==
    /\ driver.pc = "join"
    /\ driver.job = "Extraction"
    /\ driver.pending = <<"Deletion">>
    /\ nextRun["Deletion"] <= clock
    /\ task["Account"].pc = "x_data"
    /\ task["Contact"].pc = "x_open"

\* C16: started with no IdentifierFile, every identifier a Deletion task
\* submits for an object type is a record identifier of that type, one of
\* those the last successful Extraction of the same type fetched and wrote:
\* none is submitted against the other type, none that no Extraction fetched.
C16_SubmittedWereFetched ==
    \A o \in ObjectTypes :
        (driver.job = "Deletion" /\ task[o].ids # <<>>) =>
            /\ saved[o].any
            /\ Range(task[o].ids) \subseteq Range(saved[o].ids)
            /\ Range(task[o].ids) \subseteq IdsOf(o)

\* both Deletion tasks are about to submit what the Extraction of their type
\* fetched: two Account identifiers, one Contact identifier
C16_Witness ==
    /\ driver.job = "Deletion"
    /\ task["Account"].pc = "d_delete"
    /\ Len(task["Account"].ids) = 2
    /\ task["Contact"].pc = "d_delete"
    /\ task["Contact"].ids = <<"c1">>
    /\ fs[ErrorFile] = Absent

\* what to_csv writes for a list of identifiers
WrittenIds(ids) == ToCsv(DataFrame(IdDicts(ids), IdColumns))

\* C17: the step in which an Extraction task's query fails leaves the type's
\* IdentifierFile as it was, and so does every step until the job has ended;
\* so the Deletion task that follows reads and submits the identifiers the last
\* successful Extraction of the type wrote, when it wrote some.
C17_FailedExtractionKeepsFile ==
    [][ \A o \in ObjectTypes :
          /\ (task[o].pc = "x_query" /\ task'[o].pc = "caught") =>
                fs'[FileOf(o)] = fs[FileOf(o)]
          /\ (driver.job = "Extraction" /\ task[o].pc = "caught") =>
                fs'[FileOf(o)] = fs[FileOf(o)]
          /\ (driver'.job = "Extraction" /\ task'[o].pc = "caught" /\ saved'[o].any) =>
                fs'[FileOf(o)] = WrittenIds(saved'[o].ids)
          /\ ( /\ driver'.job = "Deletion"
               /\ task'[o].pc \notin {"idle", "d_read"}
               /\ saved'[o].any
               /\ saved'[o].ids # <<>> ) =>
                (task'[o].pc # "raised" /\ task'[o].ids = saved'[o].ids) ]_vars

\* on the second day the query of an Extraction task has failed (the CRM holds
\* records of the type, the task has fetched none): the file still holds the
\* two identifiers the first day's Extraction wrote
C17_Witness ==
    /\ driver.job = "Extraction"
    /\ dispatched["Extraction"] = 2
    /\ task["Account"].pc = "caught"
    /\ task["Account"].df = EmptyFrame
    /\ backend["Account"] # {}
    /\ saved["Account"].any
    /\ Len(saved["Account"].ids) = 2
    /\ FileIds(fs["Accounts.csv"]) = saved["Account"].ids

----------------------------------------------------------------------------
(* Claims about Verification *)

\* C13: whatever identifiers the IdentifierFile holds, the Verification task
\* does not end without a word, and the set it reports as still present is
\* exactly the identifiers of the file that exist in the CRM for the object
\* type (the others of the file being thereby reported as deleted).
C13_ReportsStillPresent ==
    \A o \in ObjectTypes :
        (driver.job = "Verification" /\ FileIds(fs[FileOf(o)]) # <<>>) =>
            /\ task[o].pc # "raised"
            /\ task[o].pc = "ok" =>
                  task[o].found = Range(FileIds(fs[FileOf(o)])) \cap backend[o]

\* C14: for every list of identifiers read from the IdentifierFile, with or
\* without quote characters in them, the predicate of the query Verification
\* sends selects exactly the records whose Id is in the list, unless the query
\* is rejected: no identifier changes what the predicate selects.
C14_PredicateSelectsListed ==
    \A o \in ObjectTypes :
        task[o].pc = "v_query" =>
            LET q == QueryAll(BuildQuery(o, task[o].ids), backend)
            IN ~q.err => q.ids = {r \in backend[o] : r \in Range(task[o].ids)}

====
